---- MODULE Spec2Model ----
(***************************************************************************)
(* Model of medacy/data/annotations.py: the Annotations object (an ordered *)
(* dictionary 'T<n>' -> (label, start, end, text)) and its comparison      *)
(* operations difference, intersection, compute_ambiguity and              *)
(* compute_confusion_matrix.                                               *)
(*                                                                         *)
(* A span is the Python 4-tuple <<label, start, end, text>>.  The entities *)
(* dictionary is a sequence of <<key, span>> pairs in insertion order; the *)
(* key 'T<n>' is represented by the number n.  A leniency is the rational  *)
(* <<num, den>> with den > 0; the leniencies used are dyadic, so the float *)
(* product leniency * (end - start) of the code is exact.                  *)
(***************************************************************************)
EXTENDS Integers, Sequences, FiniteSets, TLC

VARIABLES self, annotations, ret

vars == <<self, annotations, ret>>

(* ---------------------------- bounds ----------------------------------- *)

\* largest total number of entries the two Annotations objects hold when
\* every operation is open to the caller
MaxSpans == 2
\* the same, when the caller leaves compute_confusion_matrix aside
MaxSetSpans == 3
\* longest list of entities handed to compute_confusion_matrix
MaxLabels == 2
\* most entries of a bulk-loaded dictionary
MaxLoad == 1
\* largest number n of a key 'T<n>' in a bulk-loaded dictionary
MaxKey == 3

\* the ranges <<start, end>> of the general universe of spans.  <<3, 4>> is
\* inside <<2, 6>> and beside <<0, 3>>, and <<0, 3>> lies across the start of
\* <<2, 6>>; widened by its window <<3, 4>> reaches neither of the others,
\* <<0, 3>> reaches <<2, 6>> at leniency 1 but not at 1/2, and <<2, 6>>
\* reaches <<0, 3>> at 1/2 but not at 0.
Ranges == {<<0, 3>>, <<2, 6>>, <<3, 4>>}

Labels == {"Drug", "Dose"}

\* "" is the default text of add_entity
Texts == {"", "x"}

\* the general universe of spans: every label, range and text
Spans == {<<l, r[1], r[2], t>> : l \in Labels, r \in Ranges, t \in Texts}

\* the spans of the worked examples
ExampleSpans ==
  { <<"Drug", 10, 20, "x">>, <<"Drug", 6, 24, "y">>,
    <<"Drug", 10, 15, "aspirin">>, <<"Drug", 10, 20, "warfarin">>,
    <<"Dose", 12, 18, "5mg">> }

\* the leniencies -1/2, 0, 1/2, 1, 3/2
Leniencies == {<<-1, 2>>, <<0, 1>>, <<1, 2>>, <<1, 1>>, <<3, 2>>}

(* ---------------------------- helpers ---------------------------------- *)

Max(a, b) == IF a >= b THEN a ELSE b

Min(a, b) == IF a <= b THEN a ELSE b

\* math.ceil(num/den * n), den > 0
ceil(l, n) == -((-(l[1] * n)) \div l[2])

\* leniency != 0
NonZero(l) == l[1] # 0

\* a bound check that forgets the lower end
InUnit_upper(l) == l[1] <= l[2]

\* 0 <= leniency <= 1
InUnit(l) == 0 <= l[1] /\ l[1] <= l[2]

Range(f) == {f[i] : i \in DOMAIN f}

NoValue == "NoValue"

Returned(v) == [exc |-> "None", value |-> v]

Raised(e) == [exc |-> e, value |-> NoValue]

(* ------------------------ the entities dictionary ---------------------- *)

HasKey(d, k) == \E i \in 1..Len(d) : d[i][1] = k

\* dict.update({k: v}): an existing key keeps its position and gets the new
\* value, a new key is appended
DictUpdate(d, k, v) ==
  IF HasKey(d, k)
  THEN [i \in 1..Len(d) |-> IF d[i][1] = k THEN <<k, v>> ELSE d[i]]
  ELSE Append(d, <<k, v>>)

\* d[k], for a key k of d
DictGet(d, k) == d[CHOOSE i \in 1..Len(d) : d[i][1] = k][2]

\* get_entity_annotations(): list(self.annotations['entities'].values())
get_entity_annotations(d) == [i \in 1..Len(d) |-> d[i][2]]

\* add_entity: the key is 'T%i' % (len(entities) + 1)
add_entity(d, span) == DictUpdate(d, Len(d) + 1, span)

(* ------------------------ difference / intersection -------------------- *)

\* the halved window of the docstrings, ceil(leniency * len(span) / 2)
window_half(leniency, span) == ceil(<<leniency[1], 2 * leniency[2]>>, span[3] - span[2])

\* window = ceil(leniency * (end - start))
window(leniency, span) == ceil(leniency, span[3] - span[2])

\* a test that shuts the start boundary out
Contains_strict(span, w, c) ==
  /\ span[1] = c[1]
  /\ span[2] - w < c[2]
  /\ span[3] + w >= c[3]

\* a test that moves the start inwards instead of outwards
Contains_inwards(span, w, c) ==
  /\ span[1] = c[1]
  /\ span[2] + w <= c[2]
  /\ span[3] + w >= c[3]

\* the test of the inner loop: same label and the candidate's range inside
\* the span's range widened by the window w on both sides
Contains(span, w, c) ==
  /\ span[1] = c[1]
  /\ span[2] - w <= c[2]
  /\ span[3] + w >= c[3]

\* inner loop: scan the candidates in order, stop (break) at the first match
RECURSIVE InnerScan(_, _, _, _)
InnerScan(span, w, cs, j) ==
  IF j > Len(cs) THEN FALSE
  ELSE IF Contains(span, w, cs[j]) THEN TRUE
  ELSE InnerScan(span, w, cs, j + 1)

\* outer loop: the set matches built over the spans of the operated object
RECURSIVE matches(_, _, _, _)
matches(as, cs, leniency, i) ==
  IF i > Len(as) THEN {}
  ELSE LET span == as[i]
       IN  (IF InnerScan(span, window(leniency, span), cs, 1) THEN {span} ELSE {})
             \cup matches(as, cs, leniency, i + 1)

\* difference: at leniency 0 the code evaluates set - list, which Python
\* rejects with TypeError for any two operands
difference(d, other, leniency) ==
  IF NonZero(leniency)
  THEN IF ~InUnit(leniency)
       THEN Raised("ValueError")
       ELSE Returned(Range(get_entity_annotations(d))
                       \ matches(get_entity_annotations(d),
                                 get_entity_annotations(other), leniency, 1))
  ELSE Raised("TypeError")

\* intersection: no branch for leniency 0, the scan runs with window 0
intersection(d, other, leniency) ==
  IF NonZero(leniency) /\ ~InUnit(leniency)
  THEN Raised("ValueError")
  ELSE Returned(matches(get_entity_annotations(d),
                        get_entity_annotations(other), leniency, 1))

(* ---------------------------- compute_ambiguity ------------------------ *)

\* an overlap that takes the larger end
overlap_max(span, c) == Max(0, Max(span[3], c[3]) - Max(c[2], span[2]))

\* overlap = max(0, min(end, c_end) - max(c_start, start))
overlap(span, c) == Max(0, Min(span[3], c[3]) - Max(c[2], span[2]))

\* inner loop over the candidates c of one span; ambiguity_dict is an
\* ordered dictionary span -> list of spans.  On an overlap the code first
\* binds the key to a fresh empty list and then appends to it.
RECURSIVE AmbiguityInner(_, _, _, _)
AmbiguityInner(ambiguity_dict, span, cs, j) ==
  IF j > Len(cs) THEN ambiguity_dict
  ELSE LET c == cs[j]
       IN  IF span[1] = c[1]
           THEN AmbiguityInner(ambiguity_dict, span, cs, j + 1)
           ELSE IF overlap(span, c) # 0
           THEN LET fresh == DictUpdate(ambiguity_dict, span, <<>>)
                    added == DictUpdate(fresh, span, Append(DictGet(fresh, span), c))
                IN  AmbiguityInner(added, span, cs, j + 1)
           ELSE AmbiguityInner(ambiguity_dict, span, cs, j + 1)

RECURSIVE AmbiguityOuter(_, _, _, _)
AmbiguityOuter(ambiguity_dict, as, cs, i) ==
  IF i > Len(as) THEN ambiguity_dict
  ELSE AmbiguityOuter(AmbiguityInner(ambiguity_dict, as[i], cs, 1), as, cs, i + 1)

compute_ambiguity(d, other) ==
  AmbiguityOuter(<<>>, get_entity_annotations(d), get_entity_annotations(other), 1)

(* ------------------------ compute_confusion_matrix --------------------- *)

\* {entity: i for i, entity in enumerate(entities)}: indices from 0, a
\* repeated entity keeps its last index
RECURSIVE entity_encoding(_, _, _)
entity_encoding(enc, entities, i) ==
  IF i > Len(entities) THEN enc
  ELSE entity_encoding(DictUpdate(enc, entities[i], i - 1), entities, i + 1)

\* an increment of the transposed cell
Increment_transposed(m, r, c) == [m EXCEPT ![c + 1][r + 1] = @ + 1]

\* confusion_matrix[r][c] += 1, r and c counted from 0 as in the code
Increment(m, r, c) == [m EXCEPT ![r + 1][c + 1] = @ + 1]

\* one step of either loop: look both labels up, then increment the cell;
\* a label that is no key of the encoding raises KeyError
Count(acc, enc, row_label, col_label) ==
  IF acc.exc # "None" THEN acc
  ELSE IF ~HasKey(enc, row_label) \/ ~HasKey(enc, col_label) THEN Raised("KeyError")
  ELSE Returned(Increment(acc.value, DictGet(enc, row_label), DictGet(enc, col_label)))

\* for ambiguous_span in ambiguity_dict[gold_span]
RECURSIVE OffDiagonalInner(_, _, _, _, _)
OffDiagonalInner(acc, enc, gold_span, amb, j) ==
  IF j > Len(amb) THEN acc
  ELSE OffDiagonalInner(Count(acc, enc, gold_span[1], amb[j][1]), enc, gold_span, amb, j + 1)

\* for gold_span in ambiguity_dict
RECURSIVE OffDiagonal(_, _, _, _)
OffDiagonal(acc, enc, ambiguity_dict, i) ==
  IF i > Len(ambiguity_dict) THEN acc
  ELSE OffDiagonal(OffDiagonalInner(acc, enc, ambiguity_dict[i][1], ambiguity_dict[i][2], 1),
                   enc, ambiguity_dict, i + 1)

\* for matching_span in intersection
RECURSIVE Diagonal(_, _, _)
Diagonal(acc, enc, matching) ==
  IF matching = {} THEN acc
  ELSE LET matching_span == CHOOSE sp \in matching : TRUE
       IN  Diagonal(Count(acc, enc, matching_span[1], matching_span[1]), enc,
                    matching \ {matching_span})

compute_confusion_matrix(d, other, entities, leniency) ==
  LET enc == entity_encoding(<<>>, entities, 1)
      n == Len(entities)
      confusion_matrix == [r \in 1..n |-> [c \in 1..n |-> 0]]
      ambiguity_dict == compute_ambiguity(d, other)
      inter == intersection(d, other, leniency)
  IN  IF inter.exc # "None" THEN inter
      ELSE Diagonal(OffDiagonal(Returned(confusion_matrix), enc, ambiguity_dict, 1),
                    enc, inter.value)

(* ---------------------------- the state machine ------------------------ *)

\* ret is the outcome of the comparison the caller has just made: the
\* operation, its leniency and entities arguments (defaults when it has
\* none) and what it returned or raised.  The caller is single-threaded: it
\* takes the outcome (Resume) before its next operation.
Ret(op, leniency, entities, out) ==
  [op |-> op, leniency |-> leniency, entities |-> entities, out |-> out]

Idle == Ret("idle", <<0, 1>>, <<>>, Returned(NoValue))

RECURSIVE SeqsUpTo(_, _)
SeqsUpTo(S, n) ==
  IF n = 0 THEN {<<>>}
  ELSE LET shorter == SeqsUpTo(S, n - 1)
       IN  shorter \cup {Append(q, x) : q \in shorter, x \in S}

\* the lists of entities a caller passes to compute_confusion_matrix
LabelLists == SeqsUpTo(Labels, MaxLabels)

\* dictionaries a caller or from_ann can bulk-load: unique keys 'T<n>' in
\* any order
Loaded ==
  {d \in SeqsUpTo((1..MaxKey) \X Spans, MaxLoad) :
     \A i, j \in 1..Len(d) : d[i][1] = d[j][1] => i = j}

\* Annotations({'entities': {}, 'relations': []}) twice
Init ==
  /\ self = <<>>
  /\ annotations = <<>>
  /\ ret = Idle

\* the operated object bulk-loaded from a dictionary or an ANN file
InitLoad ==
  /\ self \in Loaded
  /\ annotations = <<>>
  /\ ret = Idle

\* self.add_entity(label, start, end, text), with room for n entries
AddSelf(S, n) ==
  \E span \in S :
    /\ ret = Idle
    /\ Len(self) + Len(annotations) < n
    /\ self' = add_entity(self, span)
    /\ UNCHANGED <<annotations, ret>>

\* annotations.add_entity(label, start, end, text), with room for n entries
AddOther(S, n) ==
  \E span \in S :
    /\ ret = Idle
    /\ Len(self) + Len(annotations) < n
    /\ annotations' = add_entity(annotations, span)
    /\ UNCHANGED <<self, ret>>

\* self.difference(annotations, leniency)
Difference ==
  \E leniency \in Leniencies :
    /\ ret = Idle
    /\ ret' = Ret("difference", leniency, <<>>, difference(self, annotations, leniency))
    /\ UNCHANGED <<self, annotations>>

\* self.intersection(annotations, leniency)
Intersection ==
  \E leniency \in Leniencies :
    /\ ret = Idle
    /\ ret' = Ret("intersection", leniency, <<>>, intersection(self, annotations, leniency))
    /\ UNCHANGED <<self, annotations>>

\* self.compute_ambiguity(annotations)
ComputeAmbiguity ==
  /\ ret = Idle
  /\ ret' = Ret("compute_ambiguity", <<0, 1>>, <<>>,
                Returned(compute_ambiguity(self, annotations)))
  /\ UNCHANGED <<self, annotations>>

\* self.compute_confusion_matrix(annotations, entities, leniency)
ComputeConfusionMatrix ==
  \E entities \in LabelLists, leniency \in Leniencies :
    /\ ret = Idle
    /\ ret' = Ret("compute_confusion_matrix", leniency, entities,
                  compute_confusion_matrix(self, annotations, entities, leniency))
    /\ UNCHANGED <<self, annotations>>

\* the caller takes the outcome of its call
Resume ==
  /\ ret # Idle
  /\ ret' = Idle
  /\ UNCHANGED <<self, annotations>>

\* every operation
Next ==
  \/ AddSelf(Spans, MaxSpans)
  \/ AddOther(Spans, MaxSpans)
  \/ Difference
  \/ Intersection
  \/ ComputeAmbiguity
  \/ ComputeConfusionMatrix
  \/ Resume

Spec == Init /\ [][Next]_vars

\* compute_confusion_matrix alone, over larger objects whose spans carry
\* the default text of add_entity
DefaultTextSpans == {sp \in Spans : sp[4] = ""}

NextMatrix ==
  \/ AddSelf(DefaultTextSpans, MaxSetSpans)
  \/ AddOther(DefaultTextSpans, MaxSetSpans)
  \/ ComputeConfusionMatrix
  \/ Resume

SpecMatrix == Init /\ [][NextMatrix]_vars

\* the operations on spans alone, over larger objects
NextSets ==
  \/ AddSelf(Spans, MaxSetSpans)
  \/ AddOther(Spans, MaxSetSpans)
  \/ Difference
  \/ Intersection
  \/ ComputeAmbiguity
  \/ Resume

SpecSets == Init /\ [][NextSets]_vars

\* the set operations over the spans of the worked examples
NextExample ==
  \/ AddSelf(ExampleSpans, MaxSpans)
  \/ AddOther(ExampleSpans, MaxSpans)
  \/ Difference
  \/ Intersection
  \/ Resume

SpecExample == Init /\ [][NextExample]_vars

\* add_entity on a bulk-loaded object
NextLoad == AddSelf(Spans, MaxSpans + MaxLoad)

SpecLoad == InitLoad /\ [][NextLoad]_vars

(* ---------------------------- the claims ------------------------------- *)

SelfSpans == {self[i][2] : i \in 1..Len(self)}

OtherSpans == {annotations[i][2] : i \in 1..Len(annotations)}

Zero(l) == l[1] = 0

Positive(l) == l[1] > 0

Valid(l) == 0 <= l[1] /\ l[1] <= l[2]

Less(l1, l2) == l1[1] * l2[2] < l2[1] * l1[2]

\* the least integer w with w >= l * (a.end - a.start), for a valid l
Window(l, a) ==
  CHOOSE w \in 0..(a[3] - a[2]) :
    /\ w * l[2] >= l[1] * (a[3] - a[2])
    /\ (w - 1) * l[2] < l[1] * (a[3] - a[2])

\* the spans of self matched by the containment test at leniency l
Matched(l) ==
  {a \in SelfSpans :
     \E b \in OtherSpans :
       /\ b[1] = a[1]
       /\ a[2] - Window(l, a) <= b[2]
       /\ a[3] + Window(l, a) >= b[3]}

Overlapping(a, b) == Max(0, Min(a[3], b[3]) - Max(a[2], b[2])) > 0

\* C1: at leniency 0 difference and intersection both return a set, the two
\* sets together are the spans of self, and they share no span.
C1_ZeroPartition ==
  (ret.op = "difference" /\ Zero(ret.leniency)) =>
    LET inter == intersection(self, annotations, ret.leniency)
    IN  /\ ret.out.exc = "None"
        /\ inter.exc = "None"
        /\ ret.out.value \cup inter.value = SelfSpans
        /\ ret.out.value \cap inter.value = {}

\* C2: at leniency 0 intersection returns the spans of self that occur as an
\* identical 4-tuple in annotations and difference returns the others.
C2_ZeroExact ==
  /\ (ret.op = "intersection" /\ Zero(ret.leniency)) =>
       (ret.out.exc = "None" /\ ret.out.value = SelfSpans \cap OtherSpans)
  /\ (ret.op = "difference" /\ Zero(ret.leniency)) =>
       (ret.out.exc = "None" /\ ret.out.value = SelfSpans \ OtherSpans)

C4_Monotone ==
  (ret.op = "intersection" /\ Valid(ret.leniency)) =>
    \A l1 \in Leniencies :
      (Valid(l1) /\ Less(l1, ret.leniency)) =>
        intersection(self, annotations, l1).value \subseteq ret.out.value

\* intersection at leniency 1 returned a span it does not return at 1/2
C4_Witness ==
  /\ ret.op = "intersection"
  /\ ret.leniency = <<1, 1>>
  /\ ret.out.value # intersection(self, annotations, <<1, 2>>).value

\* C5: compute_ambiguity stores under each span a of self every span of
\* annotations with another label that overlaps a, and a span with no such
\* overlap is no key.
C5_KeepsEveryOverlap ==
  ret.op = "compute_ambiguity" =>
    \A a \in SelfSpans :
      LET over == {b \in OtherSpans : b[1] # a[1] /\ Overlapping(a, b)}
      IN  IF over = {}
          THEN ~HasKey(ret.out.value, a)
          ELSE /\ HasKey(ret.out.value, a)
               /\ over \subseteq Range(DictGet(ret.out.value, a))

\* C6: in the map of compute_ambiguity every key is a span of self and every
\* span listed under it is a span of annotations with another label that
\* overlaps the key by at least one character.
C6_OnlyMislabelledOverlaps ==
  ret.op = "compute_ambiguity" =>
    \A k \in 1..Len(ret.out.value) :
      LET a == ret.out.value[k][1]
      IN  /\ a \in SelfSpans
          /\ \A b \in Range(ret.out.value[k][2]) :
               /\ b \in OtherSpans
               /\ b[1] # a[1]
               /\ Min(a[3], b[3]) - Max(a[2], b[2]) >= 1

\* compute_ambiguity returned an entry for a span that a span of its own
\* label overlaps as well
C6_Witness ==
  /\ ret.op = "compute_ambiguity"
  /\ \E k \in 1..Len(ret.out.value) :
       \E b \in OtherSpans :
         b[1] = ret.out.value[k][1][1] /\ Overlapping(ret.out.value[k][1], b)

RECURSIVE DiagonalSum(_, _)
DiagonalSum(m, i) == IF i = 0 THEN 0 ELSE m[i][i] + DiagonalSum(m, i - 1)

\* the entries <<key position, list position>> of an ambiguity map
Entries(amb) ==
  {e \in (1..Len(amb)) \X (1..Len(annotations)) : e[2] <= Len(amb[e[1]][2])}

\* the call the claim C7 is about: a valid leniency and every label present
MatrixCall ==
  /\ ret.op = "compute_confusion_matrix"
  /\ Valid(ret.leniency)
  /\ \A sp \in SelfSpans \cup OtherSpans : sp[1] \in Range(ret.entities)

\* entities[i] does not occur again later in entities
LastPosition(i) == \A j \in (i + 1)..Len(ret.entities) : ret.entities[j] # ret.entities[i]

\* the matrix as C7 describes it; the diagonal cell of a position i counts
\* the spans of the intersection labelled entities[i], at every position or
\* at the last position of each entity only (and is then 0 elsewhere)
MatrixAsClaimed(everyPosition) ==
  LET n == Len(ret.entities)
      m == ret.out.value
      inter == intersection(self, annotations, ret.leniency).value
      amb == compute_ambiguity(self, annotations)
  IN  /\ ret.out.exc = "None"
      /\ Len(m) = n
      /\ \A i \in 1..n : Len(m[i]) = n
      /\ DiagonalSum(m, n) <= Cardinality(inter)
      /\ \A i \in 1..n :
           m[i][i] = IF everyPosition \/ LastPosition(i)
                     THEN Cardinality({sp \in inter : sp[1] = ret.entities[i]})
                     ELSE 0
      /\ \A i, j \in 1..n :
           (i # j /\ m[i][j] > 0) =>
             \E e \in Entries(amb) :
               /\ amb[e[1]][1][1] = ret.entities[i]
               /\ amb[e[1]][2][e[2]][1] = ret.entities[j]

LeniencyOps == {"difference", "intersection", "compute_confusion_matrix"}

\* C8: difference, intersection and compute_confusion_matrix called with a
\* leniency outside [0, 1] raise an error, return nothing, and leave both
\* objects as they were.
C8_OutOfRangeFails ==
  [][(ret'.op \in LeniencyOps /\ ~Valid(ret'.leniency)) =>
       /\ ret'.out.exc = "ValueError"
       /\ ret'.out.value = NoValue
       /\ self' = self
       /\ annotations' = annotations]_vars

\* compute_confusion_matrix was called with leniency 3/2 on two objects that
\* hold a span each
C8_Witness ==
  /\ ret.op = "compute_confusion_matrix"
  /\ ret.leniency = <<3, 2>>
  /\ Len(self) = 1
  /\ Len(annotations) = 1

\* C9: every add_entity on an object with unique keys adds one entry and
\* leaves the entries already there, in their order.
C9_AddAppends ==
  [][self' # self =>
       /\ Len(self') = Len(self) + 1
       /\ \A i \in 1..Len(self) : self'[i] = self[i]]_vars

ExA == <<"Drug", 10, 20, "x">>

ExB == <<"Drug", 6, 24, "y">>

\* the worked example: leniency 1/2, self holds ExA alone, annotations ExB
ExampleCall ==
  /\ ret.leniency = <<1, 2>>
  /\ get_entity_annotations(self) = <<ExA>>
  /\ get_entity_annotations(annotations) = <<ExB>>

====
